---- MODULE Spec2Model ----
(***************************************************************************)
(* A model of photutils/datasets/make.py: the model renderer               *)
(* (make_model_sources_image), the Gaussian adapter                        *)
(* (make_gaussian_sources_image), the random table generators and the      *)
(* noise synthesizer.                                                      *)
(*                                                                         *)
(* One call of one public function is followed statement by statement.     *)
(* Objects that Python passes by reference (tables, arrays, random         *)
(* generators) live in heaps indexed by reference; the shared model is the *)
(* variable `model`.  The caller's opaque model evaluation model(x, y) and *)
(* discretize_model(...) are kept as terms: the grid an evaluation returns *)
(* is named by the parameter values the model held when it was evaluated   *)
(* and by the oversampling factor, and an image is the ordered sum of the  *)
(* terms added into it.  Two images with equal term lists are equal for    *)
(* every evaluator.                                                        *)
(***************************************************************************)
EXTENDS Integers, Sequences, FiniteSets, TLC

VARIABLES
    pc,             \* position in the function under call
    call,           \* the call record: function name and arguments as passed
    model,          \* the model object's current parameter values
    tables,         \* heap of Table objects: reference -> table
    arrays,         \* heap of ndarray objects: reference -> array
    rngs,           \* heap of RandomState objects: reference -> state
    source_table,   \* local: reference of the table being rendered
    image,          \* local: reference of the accumulator array
    params_to_set,  \* local of make_model_sources_image
    init_params,    \* local of make_model_sources_image (a dict)
    paramnm,        \* local: inner loop variable of make_model_sources_image
    i,              \* local: number of rows rendered so far
    prng,           \* local: reference of the generator in use
    sources,        \* local of make_random_models_table: the table being built
    exc,            \* exception in flight while the finally clause runs
    ret,            \* outcome of the call: returned value or raised exception
    calls           \* outcomes of the earlier calls in this run

vars == <<pc, call, model, tables, arrays, rngs, source_table, image,
          params_to_set, init_params, paramnm, i, prng, sources, exc, ret, calls>>

----------------------------------------------------------------------------
(* Bounds of the model *)

MaxRows == 2        \* rows of a source table
MaxCalls == 2       \* successive calls with identical arguments
MaxSources == 2     \* n_sources of the random table generators
MaxPixel == 1       \* largest pixel value given to apply_poisson_noise

----------------------------------------------------------------------------
(* Generic helpers *)

Range(s) == {s[k] : k \in DOMAIN s}

NoValue == [kind |-> "none"]
Unbound == "<unbound>"
NoDict == [keys |-> <<>>, val |-> <<>>]

Return(v) == [kind |-> "return", value |-> v]
Raise(type, msg) == [kind |-> "raise", type |-> type, msg |-> msg]
NoExc == [kind |-> "none"]

\* sequences over S without repeated elements, of length n
RECURSIVE DistinctSeqs(_, _)
DistinctSeqs(S, n) ==
    IF n = 0 THEN {<<>>}
    ELSE UNION {{Append(s, e) : e \in S \ Range(s)} : s \in DistinctSeqs(S, n - 1)}

AllDistinctSeqs(S) == UNION {DistinctSeqs(S, n) : n \in 0..Cardinality(S)}

\* sequences over S of length at most n
RECURSIVE SeqsUpTo(_, _)
SeqsUpTo(S, n) ==
    IF n = 0 THEN {<<>>}
    ELSE SeqsUpTo(S, n - 1) \cup
         {Append(s, e) : s \in {t \in SeqsUpTo(S, n - 1) : Len(t) = n - 1}, e \in S}

----------------------------------------------------------------------------
(* astropy Table: ordered column names and the rows, each a mapping from   *)
(* column name to value                                                    *)

Table(colnames, rows) == [colnames |-> colnames, rows |-> rows]

\* object heaps: references are handed out in order of allocation
NewRef(heap) == Cardinality(DOMAIN heap) + 1
Alloc(heap, obj) == [r \in DOMAIN heap \cup {NewRef(heap)} |->
                        IF r \in DOMAIN heap THEN heap[r] ELSE obj]

----------------------------------------------------------------------------
(* ParametricModel: getattr / setattr by name                              *)

(* A model object is [param_names, vals]: the declared parameter names and *)
(* the current value of every attribute set on the object.                 *)

Model(param_names, vals) == [param_names |-> param_names, vals |-> vals]

GetAttr(m, name) == m.vals[name]

SetAttr(m, name, val) ==
    [m EXCEPT !.vals = [n \in DOMAIN m.vals \cup {name} |->
                            IF n = name THEN val ELSE m.vals[n]]]

----------------------------------------------------------------------------
(* numpy: np.zeros(shape) and np.indices(shape)                            *)
(* An image_shape argument is [kind, dims, ref]: a bare integer n          *)
(* (kind "int", dims <<n>>), a tuple (kind "tuple") or an ndarray          *)
(* (kind "array", ref its reference, dims its shape).                      *)

ShapeInt(n) == [kind |-> "int", dims |-> <<n>>, ref |-> 0]
ShapeTuple(d) == [kind |-> "tuple", dims |-> d, ref |-> 0]
ShapeArray(r, d) == [kind |-> "array", dims |-> d, ref |-> r]

Array(dims, terms) == [shape |-> dims, terms |-> terms]

\* np.zeros(image_shape): an array of integers is no shape
NpZeros(image_shape) ==
    IF image_shape.kind = "array"
    THEN Raise("TypeError", "only integer scalar arrays can be converted to a scalar index")
    ELSE Return(Array(image_shape.dims, <<>>))

\* the TypeError of a bare integer raised for every shape that is not 2-D
NpIndicesTypeError(image_shape) ==
    IF image_shape.kind = "int" \/ Len(image_shape.dims) # 2
    THEN Raise("TypeError", "'int' object is not iterable")
    ELSE Return(image_shape.dims)

\* y, x = np.indices(image_shape): tuple(dimensions) fails on a bare
\* integer, and the unpacking needs exactly two index grids
NpIndicesYX(image_shape) ==
    IF image_shape.kind = "int"
    THEN Raise("TypeError", "'int' object is not iterable")
    ELSE IF Len(image_shape.dims) < 2
    THEN Raise("ValueError", "not enough values to unpack")
    ELSE IF Len(image_shape.dims) > 2
    THEN Raise("ValueError", "too many values to unpack")
    ELSE Return(image_shape.dims)

----------------------------------------------------------------------------
(* make_model_sources_image *)

\* the columns that are model parameters, in column order
ParamsToSet(colnames, param_names) ==
    SelectSeq(colnames, LAMBDA colnm : colnm \in Range(param_names))

\* {pnm: getattr(model, pnm) for pnm in params_to_set}; a dict keeps its
\* keys in insertion order
InitParams(m, names) ==
    [keys |-> names, val |-> [pnm \in Range(names) |-> GetAttr(m, pnm)]]

\* setting the first parameter only
SetFirstRowParam(m, names, source) ==
    IF names = <<>> THEN m
    ELSE SetAttr(m, Head(names), source[Head(names)])

\* for paramnm in params_to_set: setattr(model, paramnm, source[paramnm])
RECURSIVE SetRowParams(_, _, _)
SetRowParams(m, names, source) ==
    IF names = <<>> THEN m
    ELSE SetRowParams(SetAttr(m, Head(names), source[Head(names)]),
                      Tail(names), source)

\* the value of the loop variable paramnm after the inner loop
LoopVarAfter(old, names) == IF names = <<>> THEN old ELSE names[Len(names)]

\* model(x, y) when oversample == 1, discretize_model(model, (0, nx),
\* (0, ny), mode='oversample', factor=oversample) otherwise
Evaluate(m, shape, oversample) ==
    [params |-> m.vals, x_range |-> <<0, shape[2]>>, y_range |-> <<0, shape[1]>>,
     oversample |-> oversample]

\* image += grid
AddInto(arr, grid) == [arr EXCEPT !.terms = Append(@, grid)]

\* every saved value written back to its own parameter
RECURSIVE RestoreEachParam(_, _, _, _)
RestoreEachParam(m, keys, d, target) ==
    IF keys = <<>> THEN m
    ELSE RestoreEachParam(SetAttr(m, Head(keys), d.val[Head(keys)]), Tail(keys), d, target)

\* for pnm, val in init_params.items(): setattr(model, paramnm, val)
RECURSIVE RestoreParams(_, _, _, _)
RestoreParams(m, keys, d, target) ==
    IF keys = <<>> THEN m
    ELSE RestoreParams(SetAttr(m, target, d.val[Head(keys)]), Tail(keys), d, target)

\* lines 293-304: allocate the image, build the index grids, collect the
\* parameters to set and their initial values
MMSI_Begin ==
    /\ pc = "mmsi_begin"
    /\ LET z == NpZeros(call.image_shape)
           yx == NpIndicesYX(call.image_shape)
           names == ParamsToSet(tables[source_table].colnames, model.param_names)
       IN  IF z.kind = "raise"
           THEN /\ ret' = z
                /\ pc' = "raised"
                /\ UNCHANGED <<arrays, image, params_to_set, init_params>>
           ELSE IF yx.kind = "raise"
           THEN /\ ret' = yx
                /\ pc' = "raised"
                /\ arrays' = Alloc(arrays, z.value)
                /\ image' = NewRef(arrays)
                /\ UNCHANGED <<params_to_set, init_params>>
           ELSE /\ arrays' = Alloc(arrays, z.value)
                /\ image' = NewRef(arrays)
                /\ params_to_set' = names
                /\ init_params' = InitParams(model, names)
                /\ pc' = "mmsi_loop"
                /\ UNCHANGED ret
    /\ UNCHANGED <<call, model, tables, rngs, source_table, paramnm, i, prng,
                   sources, exc, calls>>

\* lines 307-315: one row: set the parameters, evaluate, accumulate; the
\* evaluation is the caller's code and may raise
MMSI_Row ==
    /\ pc = "mmsi_loop"
    /\ i < Len(tables[source_table].rows)
    /\ LET source == tables[source_table].rows[i + 1]
           m == SetRowParams(model, params_to_set, source)
       IN  /\ model' = m
           /\ paramnm' = LoopVarAfter(paramnm, params_to_set)
           /\ \E raises \in BOOLEAN :
                IF raises
                THEN /\ exc' = Raise("ModelError", "raised by the model evaluation")
                     /\ pc' = "mmsi_finally"
                     /\ UNCHANGED <<arrays, i>>
                ELSE /\ arrays' = [arrays EXCEPT ![image] =
                            AddInto(@, Evaluate(m, arrays[image].shape, call.oversample))]
                     /\ i' = i + 1
                     /\ UNCHANGED <<exc, pc>>
    /\ UNCHANGED <<call, tables, rngs, source_table, image, params_to_set,
                   init_params, prng, sources, ret, calls>>

\* line 307: the table is exhausted
MMSI_LoopEnd ==
    /\ pc = "mmsi_loop"
    /\ i = Len(tables[source_table].rows)
    /\ pc' = "mmsi_finally"
    /\ UNCHANGED <<call, model, tables, arrays, rngs, source_table, image,
                   params_to_set, init_params, paramnm, i, prng, sources, exc,
                   ret, calls>>

\* lines 316-320: the finally clause, then return image or let the
\* exception in flight escape; reading the loop variable before any row
\* bound it is an UnboundLocalError
MMSI_Finally ==
    /\ pc = "mmsi_finally"
    /\ IF init_params.keys # <<>> /\ paramnm = Unbound
       THEN /\ ret' = Raise("UnboundLocalError",
                            "local variable 'paramnm' referenced before assignment")
            /\ pc' = "raised"
            /\ UNCHANGED model
       ELSE /\ model' = RestoreParams(model, init_params.keys, init_params, paramnm)
            /\ IF exc.kind = "raise"
               THEN ret' = exc /\ pc' = "raised"
               ELSE ret' = Return(image) /\ pc' = "done"
    /\ exc' = NoExc
    /\ UNCHANGED <<call, tables, arrays, rngs, source_table, image, params_to_set,
                   init_params, paramnm, i, prng, sources, calls>>

----------------------------------------------------------------------------
(* make_gaussian_sources_image *)

\* table[name] for every row
Column(t, name) == [k \in DOMAIN t.rows |-> t.rows[k][name]]

\* table[name] = values: replaces the column in place or appends a new
\* one; the first column of an empty table sets the number of rows
SetColumn(t, name, values) ==
    Table(IF name \in Range(t.colnames) THEN t.colnames ELSE Append(t.colnames, name),
          [k \in (IF t.colnames = <<>> THEN DOMAIN values ELSE DOMAIN t.rows) |->
              [c \in Range(t.colnames) \cup {name} |->
                  IF c = name THEN values[k] ELSE t.rows[k][c]]])

\* del table[name]
DelColumn(t, name) ==
    Table(SelectSeq(t.colnames, LAMBDA c : c # name),
          [k \in DOMAIN t.rows |->
              [c \in DOMAIN t.rows[k] \ {name} |-> t.rows[k][c]]])

\* the same object instead of a copy
TableNoCopy(heap, ref) == [heap |-> heap, ref |-> ref]

\* source_table.copy(): the heap with the new object, and its reference
TableCopy(heap, ref) == [heap |-> Alloc(heap, heap[ref]), ref |-> NewRef(heap)]

\* flux / (2. * np.pi * x_stddev * y_stddev), kept as the term of its
\* operands: the quotient is no integer
FluxToAmplitude(flux, x_stddev, y_stddev) ==
    [flux |-> flux, x_stddev |-> x_stddev, y_stddev |-> y_stddev]

\* every row's amplitude derived from the widths of the first row
AmplitudeFirstRow(t) ==
    [k \in DOMAIN t.rows |->
        FluxToAmplitude(Column(t, "flux")[k], Column(t, "x_stddev")[1],
                        Column(t, "y_stddev")[1])]

\* lines 240-242: the columns are divided element by element
AmplitudeColumn(t) ==
    [k \in DOMAIN t.rows |->
        FluxToAmplitude(Column(t, "flux")[k], Column(t, "x_stddev")[k],
                        Column(t, "y_stddev")[k])]

\* Gaussian2D(x_stddev=1, y_stddev=1) with astropy's defaults for the rest
GaussianParamNames == <<"amplitude", "x_mean", "y_mean", "x_stddev", "y_stddev", "theta">>

Gaussian2D ==
    Model(GaussianParamNames,
          [amplitude |-> 1, x_mean |-> 0, y_mean |-> 0,
           x_stddev |-> 1, y_stddev |-> 1, theta |-> 0])

\* lines 238-251: normalize flux to amplitude on a copy, then hand the
\* table to make_model_sources_image with a fresh Gaussian2D
MGSI_Call ==
    /\ pc = "mgsi"
    /\ LET t == tables[call.source_table]
       IN  IF "flux" \in Range(t.colnames)
           THEN LET cp == TableCopy(tables, call.source_table)
                    amplitude == AmplitudeColumn(cp.heap[cp.ref])
                    t1 == SetColumn(cp.heap[cp.ref], "amplitude", amplitude)
                    t2 == DelColumn(t1, "flux")
                IN  /\ tables' = [cp.heap EXCEPT ![cp.ref] = t2]
                    /\ source_table' = cp.ref
                    /\ model' = Gaussian2D
                    /\ pc' = "mmsi_begin"
                    /\ UNCHANGED ret
           ELSE IF "amplitude" \notin Range(t.colnames)
           THEN /\ ret' = Raise("ValueError",
                    "either \"amplitude\" or \"flux\" must be columns in the input source_table")
                /\ pc' = "raised"
                /\ UNCHANGED <<tables, source_table, model>>
           ELSE /\ source_table' = call.source_table
                /\ model' = Gaussian2D
                /\ pc' = "mmsi_begin"
                /\ UNCHANGED <<tables, ret>>
    /\ UNCHANGED <<call, arrays, rngs, image, params_to_set, init_params,
                   paramnm, i, prng, sources, exc, calls>>

----------------------------------------------------------------------------
(* The calls of make_model_sources_image that are followed *)

\* the values a cell of a table takes
Values == {0, 1}

\* the rows of a table with the given columns: the cells of "id" number the
\* sources, every other cell is any value
RowsOver(colnames) ==
    LET free == Range(colnames) \ {"id"}
        cells == SeqsUpTo([free -> Values], MaxRows)
    IN  {[k \in DOMAIN r |->
            [c \in Range(colnames) |-> IF c = "id" THEN k ELSE r[k][c]]] : r \in cells}

RenderColumns == {"flux", "x_0", "id"}

RenderTables ==
    UNION {{Table(cn, rows) : rows \in IF cn = <<>> THEN {<<>>} ELSE RowsOver(cn)} :
             cn \in AllDistinctSeqs(RenderColumns)}

\* the model the caller passes: a point-source model with three parameters
RenderParamNames == <<"flux", "x_0", "y_0">>

RenderModels ==
    {Model(RenderParamNames, [flux |-> 1, x_0 |-> 0, y_0 |-> 0]),
     Model(RenderParamNames, [flux |-> 0, x_0 |-> 1, y_0 |-> 1])}

GridShape == <<2, 3>>

\* what was in the caller's array before the call
BufferContents == <<[params |-> [buffer |-> 0], x_range |-> <<0, 3>>,
                     y_range |-> <<0, 2>>, oversample |-> 1]>>

ImageShapes ==
    {ShapeTuple(GridShape), ShapeInt(2), ShapeTuple(<<>>), ShapeTuple(<<2>>),
     ShapeTuple(<<2, 3, 2>>), ShapeArray(1, GridShape)}

Oversamples == {1, 2}

InitLocals ==
    /\ image = 0
    /\ params_to_set = <<>>
    /\ init_params = NoDict
    /\ paramnm = Unbound
    /\ i = 0
    /\ prng = 0
    /\ sources = Table(<<>>, <<>>)
    /\ exc = NoExc
    /\ ret = NoValue
    /\ calls = <<>>

InitRender ==
    /\ pc = "mmsi_begin"
    /\ \E shape \in ImageShapes, m \in RenderModels, os \in Oversamples :
          /\ call = [fn |-> "make_model_sources_image", image_shape |-> shape,
                     model |-> m, source_table |-> 1, oversample |-> os]
          /\ model = m
          /\ arrays = IF shape.kind = "array"
                      THEN <<Array(shape.dims, BufferContents)>> ELSE <<>>
    /\ \E t \in RenderTables : tables = <<t>>
    /\ rngs = <<>>
    /\ source_table = 1
    /\ InitLocals

NextRender == MMSI_Begin \/ MMSI_Row \/ MMSI_LoopEnd \/ MMSI_Finally

SpecRender == InitRender /\ [][NextRender]_vars

----------------------------------------------------------------------------
(* The calls of make_gaussian_sources_image that are followed *)

StdDevs == {1, 2}

GaussColumns ==
    {h \o <<"x_stddev", "y_stddev">> :
        h \in {<<>>, <<"flux">>, <<"amplitude">>, <<"amplitude", "flux">>}}

GaussRows(colnames) ==
    {r \in [Range(colnames) -> Values \cup StdDevs] :
        /\ r["x_stddev"] \in StdDevs
        /\ r["y_stddev"] \in StdDevs
        /\ "flux" \in DOMAIN r => r["flux"] \in Values
        /\ "amplitude" \in DOMAIN r => r["amplitude"] \in Values}

GaussTables ==
    UNION {{Table(cn, rows) : rows \in SeqsUpTo(GaussRows(cn), MaxRows)} :
             cn \in GaussColumns}

NoModel == Model(<<>>, <<>>)

InitGauss ==
    /\ pc = "mgsi"
    /\ \E t \in GaussTables, os \in Oversamples :
          /\ call = [fn |-> "make_gaussian_sources_image",
                     image_shape |-> ShapeTuple(GridShape),
                     source_table |-> 1, table |-> t, oversample |-> os]
          /\ tables = <<t>>
    /\ model = NoModel
    /\ arrays = <<>>
    /\ rngs = <<>>
    /\ source_table = 0
    /\ InitLocals

NextGauss == MGSI_Call \/ MMSI_Begin \/ MMSI_Row \/ MMSI_LoopEnd \/ MMSI_Finally

SpecGauss == InitGauss /\ [][NextGauss]_vars

----------------------------------------------------------------------------
(* The random source: check_random_state and numpy's RandomState.          *)
(* A generator is its state, a number below 8; a draw steps the state and  *)
(* is a function of the state reached.                                     *)

None == <<>>
Some(v) == <<v>>

SeedInt(n) == [kind |-> "int", n |-> n, ref |-> 0]
SeedHandle(r) == [kind |-> "handle", n |-> 0, ref |-> r]

\* np.random.RandomState(n): the state an integer seed fixes
RandomState(n) == (3 * n + 1) % 8

\* one step of the generator
NextState(s) == (5 * s + 3) % 8

\* check_random_state(seed): a new generator for an integer seed, the
\* caller's generator itself for a generator handle
CheckRandomState(heap, seed) ==
    IF seed.kind = "int"
    THEN [heap |-> Alloc(heap, RandomState(seed.n)), ref |-> NewRef(heap)]
    ELSE [heap |-> heap, ref |-> seed.ref]

\* the states reached by n draws
RECURSIVE States(_, _)
States(s, n) ==
    IF n = 0 THEN <<>> ELSE <<NextState(s)>> \o States(NextState(s), n - 1)

StateAfter(s, n) == IF n = 0 THEN s ELSE States(s, n)[n]

\* prng.uniform(lower, upper, n): the k-th value is
\* lower + (upper - lower) * u / 8, kept as the term of its operands
Uniform(s, lower, upper, n) ==
    [values |-> [k \in 1..n |-> [lower |-> lower, upper |-> upper, u |-> States(s, n)[k]]],
     state |-> StateAfter(s, n)]

\* prng.normal(loc, scale, n)
Normal(s, loc, scale, n) ==
    [values |-> [k \in 1..n |-> loc + scale * ((States(s, n)[k] % 3) - 1)],
     state |-> StateAfter(s, n)]

\* one Poisson sample of expectation lam > 0 at generator state s
PoissonSample(lam, s) == (s * lam) % (2 * lam + 1)

\* prng.poisson(lam) for a sequence of expectations: an expectation of 0
\* yields 0 without a draw
RECURSIVE PoissonSamples(_, _)
PoissonSamples(s, lam) ==
    IF lam = <<>> THEN [values |-> <<>>, state |-> s]
    ELSE IF Head(lam) = 0
    THEN LET r == PoissonSamples(s, Tail(lam))
         IN  [values |-> <<0>> \o r.values, state |-> r.state]
    ELSE LET r == PoissonSamples(NextState(s), Tail(lam))
         IN  [values |-> <<PoissonSample(Head(lam), NextState(s))>> \o r.values,
              state |-> r.state]

\* numpy rejects a negative expectation itself
Poisson(s, lam) ==
    IF \E k \in DOMAIN lam : lam[k] < 0
    THEN Raise("ValueError", "lam < 0")
    ELSE Return(PoissonSamples(s, lam))

\* number of pixels of a shape
RECURSIVE Size(_)
Size(dims) == IF dims = <<>> THEN 1 ELSE Head(dims) * Size(Tail(dims))

Pixels(dims, data) == [shape |-> dims, data |-> data]

----------------------------------------------------------------------------
(* str.format: a template is the sequence of its literal texts and         *)
(* replacement fields; a formatted message is the sequence of its pieces   *)

Text(s) == [kind |-> "text", s |-> s]
Field(name) == [kind |-> "field", s |-> name]

PositionalIndex == [name \in {"0", "1"} |-> IF name = "0" THEN 1 ELSE 2]

\* template.format(*args): an empty field name takes the next positional
\* argument, a number the argument at that position, anything else is
\* looked up among the keyword arguments, of which there are none
RECURSIVE Format(_, _, _)
Format(template, args, auto) ==
    IF template = <<>> THEN Return(<<>>)
    ELSE LET h == Head(template)
             piece == IF h.kind = "text" THEN Return(h.s)
                      ELSE IF h.s = ""
                      THEN IF auto + 1 \in DOMAIN args THEN Return(args[auto + 1])
                           ELSE Raise("IndexError", "tuple index out of range")
                      ELSE IF h.s \in DOMAIN PositionalIndex
                      THEN IF PositionalIndex[h.s] \in DOMAIN args
                           THEN Return(args[PositionalIndex[h.s]])
                           ELSE Raise("IndexError", "tuple index out of range")
                      ELSE Raise("KeyError", h.s)
             rest == Format(Tail(template), args,
                            IF h.kind = "field" /\ h.s = "" THEN auto + 1 ELSE auto)
         IN  IF piece.kind = "raise" THEN piece
             ELSE IF rest.kind = "raise" THEN rest
             ELSE Return(<<piece.value>> \o rest.value)

----------------------------------------------------------------------------
(* apply_poisson_noise *)

\* only the first pixel tested
FirstNegative(data) == data.data # <<>> /\ data.data[1] < 0

\* np.any(data < 0)
AnyNegative(data) == \E k \in DOMAIN data.data : data.data[k] < 0

\* lines 74-76
APN_Check ==
    /\ pc = "apn"
    /\ IF AnyNegative(call.data)
       THEN /\ ret' = Raise("ValueError", "data must not contain any negative values")
            /\ pc' = "raised"
       ELSE /\ pc' = "apn_draw"
            /\ UNCHANGED ret
    /\ UNCHANGED <<call, model, tables, arrays, rngs, source_table, image,
                   params_to_set, init_params, paramnm, i, prng, sources, exc, calls>>

\* lines 78-80
APN_Draw ==
    /\ pc = "apn_draw"
    /\ LET g == CheckRandomState(rngs, call.random_state)
           r == Poisson(g.heap[g.ref], call.data.data)
       IN  /\ prng' = g.ref
           /\ IF r.kind = "raise"
              THEN /\ rngs' = g.heap
                   /\ ret' = r
                   /\ pc' = "raised"
              ELSE /\ rngs' = [g.heap EXCEPT ![g.ref] = r.value.state]
                   /\ ret' = Return(Pixels(call.data.shape, r.value.values))
                   /\ pc' = "done"
    /\ UNCHANGED <<call, model, tables, arrays, source_table, image,
                   params_to_set, init_params, paramnm, i, sources, exc, calls>>

----------------------------------------------------------------------------
(* make_noise_image *)

InvalidTypeTemplate ==
    <<Text("Invalid type: "), Field("0"), Text(". Use one of "),
      Field("\"gaussian\", \"poisson\""), Text(".")>>

\* lines 144-146
MNI_Begin ==
    /\ pc = "mni"
    /\ IF call.mean = None
       THEN /\ ret' = Raise("ValueError", "\"mean\" must be input")
            /\ pc' = "raised"
            /\ UNCHANGED <<rngs, prng>>
       ELSE LET g == CheckRandomState(rngs, call.random_state)
            IN  /\ rngs' = g.heap
                /\ prng' = g.ref
                /\ pc' = "mni_draw"
                /\ UNCHANGED ret
    /\ UNCHANGED <<call, model, tables, arrays, source_table, image,
                   params_to_set, init_params, paramnm, i, sources, exc, calls>>

\* lines 147-157
MNI_Draw ==
    /\ pc = "mni_draw"
    /\ IF call.type = "gaussian"
       THEN IF call.stddev = None
            THEN /\ ret' = Raise("ValueError", "\"stddev\" must be input for Gaussian noise")
                 /\ pc' = "raised"
                 /\ UNCHANGED rngs
            ELSE LET r == Normal(rngs[prng], call.mean[1], call.stddev[1],
                                 Size(call.image_shape))
                 IN  /\ rngs' = [rngs EXCEPT ![prng] = r.state]
                     /\ ret' = Return(Pixels(call.image_shape, r.values))
                     /\ pc' = "done"
       ELSE IF call.type = "poisson"
       THEN LET r == Poisson(rngs[prng],
                             [k \in 1..Size(call.image_shape) |-> call.mean[1]])
            IN  /\ rngs' = [rngs EXCEPT ![prng] = r.value.state]
                /\ ret' = Return(Pixels(call.image_shape, r.value.values))
                /\ pc' = "done"
       ELSE LET msg == Format(InvalidTypeTemplate, <<call.type>>, 0)
            IN  /\ ret' = IF msg.kind = "raise" THEN msg
                          ELSE Raise("ValueError", msg.value)
                /\ pc' = "raised"
                /\ UNCHANGED rngs
    /\ UNCHANGED <<call, model, tables, arrays, source_table, image,
                   params_to_set, init_params, paramnm, i, prng, sources, exc, calls>>

----------------------------------------------------------------------------
(* make_random_gaussians_table *)

TwoPi == [times |-> 2, of |-> "pi"]

\* sources[name] = prng.uniform(range[0], range[1], n_sources), for the
\* columns in the order given
RECURSIVE DrawColumns(_, _, _, _)
DrawColumns(t, s, columns, n) ==
    IF columns = <<>> THEN [table |-> t, state |-> s]
    ELSE LET c == Head(columns)
             u == Uniform(s, c.range[1], c.range[2], n)
         IN  DrawColumns(SetColumn(t, c.name, u.values), u.state, Tail(columns), n)

ColumnRange(name, range) == [name |-> name, range |-> range]

\* lines 426-440
MRGT_Call ==
    /\ pc = "mrgt"
    /\ LET g == CheckRandomState(rngs, call.random_state)
           first == IF call.amplitude_range = None
                    THEN ColumnRange("flux", call.flux_range)
                    ELSE ColumnRange("amplitude", call.amplitude_range[1])
           r == DrawColumns(Table(<<>>, <<>>), g.heap[g.ref],
                    <<first,
                      ColumnRange("x_mean", call.xmean_range),
                      ColumnRange("y_mean", call.ymean_range),
                      ColumnRange("x_stddev", call.xstddev_range),
                      ColumnRange("y_stddev", call.ystddev_range),
                      ColumnRange("theta", <<0, TwoPi>>)>>,
                    call.n_sources)
       IN  /\ prng' = g.ref
           /\ rngs' = [g.heap EXCEPT ![g.ref] = r.state]
           /\ ret' = Return(r.table)
           /\ pc' = "done"
    /\ UNCHANGED <<call, model, tables, arrays, source_table, image,
                   params_to_set, init_params, paramnm, i, sources, exc, calls>>

----------------------------------------------------------------------------
(* make_random_models_table *)

UnknownParameterTemplate ==
    <<Text("Requested parameter "), Field(""), Text(" is not in model "), Field("")>>

\* the membership test left out
AnyName(pnm, param_names) == TRUE

\* pnm in model.param_names
IsParamName(pnm, param_names) == pnm \in Range(param_names)

\* lines 582-584
MRMT_Begin ==
    /\ pc = "mrmt"
    /\ LET g == CheckRandomState(rngs, call.random_state)
       IN  /\ rngs' = g.heap
           /\ prng' = g.ref
    /\ sources' = Table(<<>>, <<>>)
    /\ i' = 0
    /\ pc' = "mrmt_loop"
    /\ UNCHANGED <<call, model, tables, arrays, source_table, image,
                   params_to_set, init_params, paramnm, exc, ret, calls>>

\* lines 586-589: one item of param_ranges, in insertion order
MRMT_Item ==
    /\ pc = "mrmt_loop"
    /\ i < Len(call.param_ranges.keys)
    /\ LET pnm == call.param_ranges.keys[i + 1]
           lower == call.param_ranges.val[pnm][1]
           upper == call.param_ranges.val[pnm][2]
       IN  IF ~IsParamName(pnm, model.param_names)
           THEN LET msg == Format(UnknownParameterTemplate, <<pnm, "<model>">>, 0)
                IN  /\ ret' = IF msg.kind = "raise" THEN msg
                              ELSE Raise("ValueError", msg.value)
                    /\ pc' = "raised"
                    /\ UNCHANGED <<rngs, sources, i>>
           ELSE LET u == Uniform(rngs[prng], lower, upper, call.n_sources)
                IN  /\ sources' = SetColumn(sources, pnm, u.values)
                    /\ rngs' = [rngs EXCEPT ![prng] = u.state]
                    /\ i' = i + 1
                    /\ UNCHANGED <<ret, pc>>
    /\ UNCHANGED <<call, model, tables, arrays, source_table, image,
                   params_to_set, init_params, paramnm, prng, exc, calls>>

\* line 591
MRMT_Return ==
    /\ pc = "mrmt_loop"
    /\ i = Len(call.param_ranges.keys)
    /\ ret' = Return(sources)
    /\ pc' = "done"
    /\ UNCHANGED <<call, model, tables, arrays, rngs, source_table, image,
                   params_to_set, init_params, paramnm, i, prng, sources, exc, calls>>

----------------------------------------------------------------------------
(* The calls of the random functions that are followed: the caller calls   *)
(* one function and, when it has returned or raised, calls it again with   *)
(* identical arguments.                                                    *)

EntryOf(fn) ==
    CASE fn = "apply_poisson_noise" -> "apn"
      [] fn = "make_noise_image" -> "mni"
      [] fn = "make_random_gaussians_table" -> "mrgt"
      [] fn = "make_random_models_table" -> "mrmt"

\* the next of the separate function calls with the same parameters and
\* random_state
CallAgain ==
    /\ pc \in {"done", "raised"}
    /\ Len(calls) + 1 < MaxCalls
    /\ calls' = Append(calls, ret)
    /\ call' = [call EXCEPT !.rngs = rngs]
    /\ pc' = EntryOf(call.fn)
    /\ ret' = NoValue
    /\ i' = 0
    /\ prng' = 0
    /\ sources' = Table(<<>>, <<>>)
    /\ UNCHANGED <<model, tables, arrays, rngs, source_table, image,
                   params_to_set, init_params, paramnm, exc>>

PixelShapes == {<<1, 2>>, <<2, 2>>}

DataArrays ==
    UNION {{Pixels(d, data) : data \in [1..Size(d) -> -1..MaxPixel]} : d \in PixelShapes}

\* a seed and the generators that exist before the call: an integer seed,
\* or a handle to the caller's generator in any state
SeedsAndGenerators ==
    {[seed |-> SeedInt(n), rngs |-> <<>>] : n \in {1, 2}} \cup
    {[seed |-> SeedHandle(1), rngs |-> <<s>>] : s \in 0..7}

NoiseTypes == {"gaussian", "poisson", "uniform", "Poisson"}

ParamRangeKeys == {"flux", "x_0", "x_mean"}

ParamRanges ==
    {[keys |-> ks, val |-> [k \in Range(ks) |-> <<0, 10>>]] :
        ks \in AllDistinctSeqs(ParamRangeKeys)}

InitRandom ==
    /\ \E sg \in SeedsAndGenerators :
          /\ rngs = sg.rngs
          /\ \/ \E data \in DataArrays :
                   /\ call = [fn |-> "apply_poisson_noise", data |-> data,
                              random_state |-> sg.seed, rngs |-> sg.rngs]
                   /\ pc = "apn"
             \/ \E shape \in PixelShapes, type \in NoiseTypes,
                   mean \in {None, Some(0), Some(2)}, stddev \in {None, Some(1)} :
                   /\ call = [fn |-> "make_noise_image", image_shape |-> shape,
                              type |-> type, mean |-> mean, stddev |-> stddev,
                              random_state |-> sg.seed, rngs |-> sg.rngs]
                   /\ pc = "mni"
             \/ \E n \in 0..MaxSources, amplitude_range \in {None, Some(<<1, 2>>)} :
                   /\ call = [fn |-> "make_random_gaussians_table", n_sources |-> n,
                              flux_range |-> <<500, 1000>>, xmean_range |-> <<0, 500>>,
                              ymean_range |-> <<0, 300>>, xstddev_range |-> <<1, 5>>,
                              ystddev_range |-> <<1, 5>>,
                              amplitude_range |-> amplitude_range,
                              random_state |-> sg.seed, rngs |-> sg.rngs]
                   /\ pc = "mrgt"
             \/ \E n \in 0..MaxSources, param_ranges \in ParamRanges :
                   /\ call = [fn |-> "make_random_models_table", n_sources |-> n,
                              param_ranges |-> param_ranges,
                              random_state |-> sg.seed, rngs |-> sg.rngs]
                   /\ pc = "mrmt"
    /\ model = Model(RenderParamNames, [flux |-> 1, x_0 |-> 0, y_0 |-> 0])
    /\ tables = <<>>
    /\ arrays = <<>>
    /\ source_table = 0
    /\ InitLocals

NextRandom ==
    \/ APN_Check \/ APN_Draw
    \/ MNI_Begin \/ MNI_Draw
    \/ MRGT_Call
    \/ MRMT_Begin \/ MRMT_Item \/ MRMT_Return
    \/ CallAgain

SpecRandom == InitRandom /\ [][NextRandom]_vars

----------------------------------------------------------------------------
(* Properties of make_model_sources_image *)

Ended == pc \in {"done", "raised"}

CalledTable == tables[call.source_table]

\* the columns of the caller's table that name a parameter of the model
MatchedColumns == {c \in Range(CalledTable.colnames) : c \in Range(call.model.param_names)}

\* the model's values with one row substituted for the matched columns
Substituted(m, row) ==
    [p \in Range(m.param_names) |->
        IF p \in DOMAIN row THEN row[p] ELSE m.vals[p]]

\* the grid the contract asks for: one evaluation per row, in row order
ExpectedTerms(m, t, shape, oversample) ==
    [k \in DOMAIN t.rows |->
        [params |-> Substituted(m, t.rows[k]),
         x_range |-> <<0, shape[2]>>, y_range |-> <<0, shape[1]>>,
         oversample |-> oversample]]

NotTwoDimensional(shape) ==
    \/ shape.kind = "int"
    \/ shape.kind = "tuple" /\ Len(shape.dims) # 2

\* C1: after make_model_sources_image returns or raises, every parameter
\* set from a matched column holds its pre-call value again.
C1_ParamsRestored ==
    (call.fn = "make_model_sources_image" /\ Ended) =>
        \A p \in MatchedColumns : GetAttr(model, p) = GetAttr(call.model, p)

\* C2: the returned grid is the sum, in row order, of the model evaluated
\* with each row's values substituted for exactly the matched columns;
\* unmatched columns change nothing and parameters without a column keep the
\* model's value.
C2_ImageIsSumOverRows ==
    (call.fn = "make_model_sources_image" /\ pc = "done") =>
        /\ ret.kind = "return"
        /\ arrays[ret.value] =
              Array(call.image_shape.dims,
                    ExpectedTerms(call.model, CalledTable, call.image_shape.dims,
                                  call.oversample))

C2_Witness ==
    /\ call.fn = "make_model_sources_image"
    /\ pc = "done"
    /\ Len(CalledTable.rows) = 2
    /\ CalledTable.colnames = <<"id", "x_0">>
    /\ CalledTable.rows[1]["x_0"] # CalledTable.rows[2]["x_0"]
    /\ Len(arrays[ret.value].terms) = 2

\* C3: given a 2-dimensional array as first argument, the sources are added
\* into that array in place and it is the returned grid; given a shape, a
\* new zero-filled grid is allocated.
C3_AddsIntoBuffer ==
    (call.fn = "make_model_sources_image" /\ Ended
        /\ call.image_shape.kind = "array"
        /\ ~(ret.kind = "raise" /\ ret.type = "ModelError")) =>
        /\ ret = Return(call.image_shape.ref)
        /\ arrays[call.image_shape.ref] =
              Array(call.image_shape.dims,
                    BufferContents \o
                    ExpectedTerms(call.model, CalledTable, call.image_shape.dims,
                                  call.oversample))

\* C10 as claimed: every image_shape that is not 2-dimensional fails with
\* ValueError, the model untouched.
C10_ValueErrorForEveryShape ==
    (call.fn = "make_model_sources_image" /\ Ended
        /\ NotTwoDimensional(call.image_shape)) =>
        /\ ret.kind = "raise"
        /\ ret.type = "ValueError"
        /\ model = call.model

\* C10 as amended: every image_shape that is not 2-dimensional fails before
\* any parameter is set, with ValueError for a tuple whose length is not 2
\* and with TypeError for a bare integer; the model is untouched.
C10_FailsBeforeAnyParameterIsSet ==
    (call.fn = "make_model_sources_image" /\ NotTwoDimensional(call.image_shape)) =>
        /\ pc \in {"mmsi_begin", "raised"}
        /\ model = call.model
        /\ params_to_set = <<>>
        /\ pc = "raised" =>
              /\ ret.kind = "raise"
              /\ ret.type = IF call.image_shape.kind = "int"
                            THEN "TypeError" ELSE "ValueError"

C10_Witness ==
    /\ call.fn = "make_model_sources_image"
    /\ pc = "raised"
    /\ call.image_shape = ShapeTuple(<<2, 3, 2>>)
    /\ Len(CalledTable.rows) = 2
    /\ MatchedColumns = {"flux", "x_0"}
    /\ ret.type = "ValueError"

\* the matched column that comes last in the table: the last parameter
\* name the per-row loop processes
LastMatchedColumn ==
    CalledTable.colnames[
        CHOOSE k \in DOMAIN CalledTable.colnames :
            /\ CalledTable.colnames[k] \in MatchedColumns
            /\ \A j \in DOMAIN CalledTable.colnames :
                  CalledTable.colnames[j] \in MatchedColumns => j <= k]

\* the row whose values the model was last set from: the row whose
\* evaluation raised, or the last row of the table
LastRowSet ==
    CalledTable.rows[IF ret.kind = "raise" /\ ret.type = "ModelError"
                     THEN i + 1 ELSE Len(CalledTable.rows)]

\* C11 as claimed: with two or more matched columns the restoration writes
\* every captured parameter, and all of them end at the pre-call value of
\* the last parameter name processed in the per-row loop.
C11_AllHoldLastInitialValue ==
    (call.fn = "make_model_sources_image" /\ Ended
        /\ call.image_shape.kind = "tuple" /\ Len(call.image_shape.dims) = 2
        /\ Cardinality(MatchedColumns) >= 2) =>
        \A p \in MatchedColumns :
            GetAttr(model, p) = GetAttr(call.model, LastMatchedColumn)

\* C11 as amended: with two or more matched columns and at least one row
\* the restoration writes only the last parameter name processed in the
\* per-row loop, which ends at its own pre-call value; every other captured
\* parameter keeps the value set from the last row processed, and the
\* parameters without a column are untouched.  With no row nothing is
\* written.
C11_OnlyLastParameterRestored ==
    (call.fn = "make_model_sources_image" /\ Ended
        /\ call.image_shape.kind = "tuple" /\ Len(call.image_shape.dims) = 2
        /\ Cardinality(MatchedColumns) >= 2) =>
        IF CalledTable.rows = <<>>
        THEN model = call.model
        ELSE /\ GetAttr(model, LastMatchedColumn) =
                    GetAttr(call.model, LastMatchedColumn)
             /\ \A p \in MatchedColumns \ {LastMatchedColumn} :
                    GetAttr(model, p) = LastRowSet[p]
             /\ \A p \in Range(call.model.param_names) \ MatchedColumns :
                    GetAttr(model, p) = GetAttr(call.model, p)
             /\ DOMAIN model.vals = DOMAIN call.model.vals

C11_Witness ==
    /\ call.fn = "make_model_sources_image"
    /\ pc = "done"
    /\ CalledTable.colnames = <<"x_0", "id", "flux">>
    /\ Len(CalledTable.rows) = 2
    /\ CalledTable.rows[2]["flux"] # GetAttr(call.model, "flux")
    /\ GetAttr(model, "flux") = GetAttr(call.model, "flux")
    /\ GetAttr(model, "x_0") = CalledTable.rows[2]["x_0"]
    /\ GetAttr(model, "x_0") # GetAttr(call.model, "x_0")
    /\ GetAttr(call.model, "x_0") # GetAttr(call.model, "flux")

\* C12: for a table without rows, whatever its columns, the call returns
\* without raising an all-zero grid of image_shape and leaves every
\* parameter at its pre-call value.
C12_ZeroRowsReturnZeroGrid ==
    (call.fn = "make_model_sources_image" /\ Ended
        /\ call.image_shape.kind = "tuple" /\ Len(call.image_shape.dims) = 2
        /\ CalledTable.rows = <<>>) =>
        /\ ret.kind = "return"
        /\ arrays[ret.value] = Array(call.image_shape.dims, <<>>)
        /\ model = call.model

----------------------------------------------------------------------------
(* Properties of make_gaussian_sources_image *)

\* the row the renderer is to see: with a flux column the amplitude is the
\* one derived from the row's own flux and widths, whatever the table's
\* amplitude column holds
GaussianRow(colnames, row) ==
    IF "flux" \in Range(colnames)
    THEN [c \in (DOMAIN row \ {"flux"}) \cup {"amplitude"} |->
            IF c = "amplitude"
            THEN FluxToAmplitude(row["flux"], row["x_stddev"], row["y_stddev"])
            ELSE row[c]]
    ELSE row

ExpectedGaussianTerms(t, shape, oversample) ==
    [k \in DOMAIN t.rows |->
        [params |-> Substituted(Gaussian2D, GaussianRow(t.colnames, t.rows[k])),
         x_range |-> <<0, shape[2]>>, y_range |-> <<0, shape[1]>>,
         oversample |-> oversample]]

\* C4: with a flux column every row is rendered with the amplitude derived
\* from its own flux, x_stddev and y_stddev, an amplitude column being
\* overwritten (the image does not depend on it); with only an amplitude
\* column the amplitude is used unchanged.
C4_FluxOverridesAmplitude ==
    (call.fn = "make_gaussian_sources_image" /\ pc = "done") =>
        /\ ret.kind = "return"
        /\ arrays[ret.value] =
              Array(call.image_shape.dims,
                    ExpectedGaussianTerms(call.table, call.image_shape.dims,
                                          call.oversample))

C4_Witness ==
    /\ call.fn = "make_gaussian_sources_image"
    /\ pc = "done"
    /\ call.table.colnames = <<"amplitude", "flux", "x_stddev", "y_stddev">>
    /\ Len(call.table.rows) = 2
    /\ call.table.rows[1]["x_stddev"] # call.table.rows[2]["x_stddev"]
    /\ call.table.rows[2]["amplitude"] = 0
    /\ arrays[ret.value].terms[2].params["amplitude"] =
          FluxToAmplitude(1, call.table.rows[2]["x_stddev"], call.table.rows[2]["y_stddev"])

\* C5: the caller's table keeps its column names, their order and its values
\* throughout and after the call, on the flux branch, the amplitude-only
\* branch and the error branch.
C5_CallerTableUnchanged ==
    call.fn = "make_gaussian_sources_image" =>
        tables[call.source_table] = call.table

C5_Witness ==
    /\ call.fn = "make_gaussian_sources_image"
    /\ pc = "done"
    /\ call.table.colnames = <<"amplitude", "flux", "x_stddev", "y_stddev">>
    /\ Len(call.table.rows) = 2
    /\ source_table # call.source_table
    /\ tables[source_table].colnames = <<"amplitude", "x_stddev", "y_stddev">>
    /\ tables[source_table].rows[1]["amplitude"] =
          FluxToAmplitude(call.table.rows[1]["flux"], call.table.rows[1]["x_stddev"],
                          call.table.rows[1]["y_stddev"])

----------------------------------------------------------------------------
(* Properties of the noise synthesizer and the random table generators *)

SupportedTypes == {"gaussian", "poisson"}

\* C6: make_noise_image with a mean and a type other than 'gaussian' or
\* 'poisson' raises ValueError, and nothing else, with a message that names
\* the rejected type and lists the supported ones.
C6_InvalidTypeIsValueError ==
    (call.fn = "make_noise_image" /\ Ended
        /\ call.mean # None /\ call.type \notin SupportedTypes) =>
        /\ ret.kind = "raise"
        /\ ret.type = "ValueError"
        /\ call.type \in Range(ret.msg)
        /\ \A t \in SupportedTypes : \E k \in DOMAIN ret.msg : ret.msg[k] = t

\* C7: with the same seed, an integer or a generator handle, a repeated
\* call of make_random_gaussians_table, make_noise_image or
\* apply_poisson_noise with identical arguments gives the outcome of the
\* first call.
C7_SameSeedSameOutput ==
    (call.fn \in {"make_random_gaussians_table", "make_noise_image",
                  "apply_poisson_noise"}
        /\ Ended /\ calls # <<>>) =>
        ret = calls[1]

\* C8: make_random_models_table raises ValueError whenever some key of
\* param_ranges is no parameter of the model, wherever the key sits;
\* otherwise it returns a table whose columns are the keys in insertion
\* order, each with n_sources values.
C8_UnknownParameterOrTable ==
    (call.fn = "make_random_models_table" /\ Ended) =>
        IF \E k \in DOMAIN call.param_ranges.keys :
               \A q \in DOMAIN model.param_names :
                   model.param_names[q] # call.param_ranges.keys[k]
        THEN ret.kind = "raise" /\ ret.type = "ValueError"
        ELSE /\ ret.kind = "return"
             /\ ret.value.colnames = call.param_ranges.keys
             /\ call.param_ranges.keys # <<>> => Len(ret.value.rows) = call.n_sources
             /\ \A k \in DOMAIN ret.value.rows :
                   DOMAIN ret.value.rows[k] = Range(call.param_ranges.keys)

C8_Witness ==
    /\ call.fn = "make_random_models_table"
    /\ pc = "raised"
    /\ call.param_ranges.keys = <<"flux", "x_0", "x_mean">>
    /\ call.n_sources = 2
    /\ sources.colnames = <<"flux", "x_0">>
    /\ ret.type = "ValueError"

HasNegativePixel(data) == ~(\A k \in DOMAIN data.data : data.data[k] >= 0)

\* C9: apply_poisson_noise raises ValueError whenever some pixel is
\* negative, before it obtains or draws from the random source (no
\* generator is made and the caller's generator is not advanced); input
\* without a negative pixel, all-zero input included, is accepted and gives
\* one sample per pixel in an output of the input's shape.
C9_NegativeRejectedBeforeDraw ==
    call.fn = "apply_poisson_noise" =>
        /\ HasNegativePixel(call.data) =>
              /\ rngs = call.rngs
              /\ pc \in {"apn", "raised"}
              /\ pc = "raised" => ret.kind = "raise" /\ ret.type = "ValueError"
        /\ (~HasNegativePixel(call.data) /\ Ended) =>
              /\ ret.kind = "return"
              /\ ret.value.shape = call.data.shape
              /\ DOMAIN ret.value.data = DOMAIN call.data.data
              /\ \A k \in DOMAIN ret.value.data :
                    /\ ret.value.data[k] >= 0
                    /\ call.data.data[k] = 0 => ret.value.data[k] = 0

C9_Witness ==
    /\ call.fn = "apply_poisson_noise"
    /\ pc = "raised"
    /\ call.random_state.kind = "handle"
    /\ call.data.data = <<1, -1>>
    /\ calls # <<>>
    /\ ret.type = "ValueError"
    /\ rngs = call.rngs

====
